---- MODULE Spec2Model ----
(***************************************************************************)
(* Verification model of alexcwagner/Tuyok: the host side of a GPU search  *)
(* over layered-ellipsoid models.                                          *)
(*                                                                         *)
(*   Model.py            Model (validation, to_struct / from_struct,       *)
(*                       explore_variations)                               *)
(*   compute_harness.py  BufferSpec, UniformSpec, GLSLComputeProgram       *)
(*                                                                         *)
(* Doubles are modelled in fixed point: the integer v stands for the       *)
(* double v * 2.5e-9 (so 1.0 is 400000000 and numpy's 1e-8 is 4).  The     *)
(* byte image of a double is its real IEEE-754 little-endian encoding,     *)
(* kept in a table for the doubles the model uses.                         *)
(***************************************************************************)
EXTENDS Integers, Sequences, FiniteSets, TLC

VARIABLES
    pc,                 \* "idle": no call in progress; "returned": a call has returned
    model,              \* the Model instance (a dict), or NoModel
    ctor,               \* outcome of the last Model(...) call
    struct_bytes,       \* the bytes returned by the last to_struct()
    rt,                 \* outcome of reading a record back and from_struct
    shader_initialized, \* Model._shader_initialized
    program,            \* Model.program: the GLSLComputeProgram, or NoProgram
    gl,                 \* the state of the GL context
    calls,              \* the GL calls made by the last call, in order
    ret                 \* what the last harness / driver call returned or raised

vars == <<pc, model, ctor, struct_bytes, rt, shader_initialized, program, gl, calls, ret>>

modelVars == <<model, ctor, struct_bytes, rt>>
harnessVars == <<shader_initialized, program, gl, calls, ret>>

-----------------------------------------------------------------------------
(* Bounds of the model *)

\* longest layer list enumerated layer by layer (full-capacity lists are added)
MaxLayersIn == 2

-----------------------------------------------------------------------------
(* Doubles *)

\* 1.0, 0.5 and 2.0 in the fixed-point unit of 2.5e-9
One == 4 * 100000000
Half == One \div 2
Two == 2 * One

\* padding_sentinel = 3.14159265358979323846
PaddingSentinel == 1256637061

\* "no object yet"
NoModel == [none |-> TRUE]
NoProgram == [none |-> TRUE]

\* struct.pack('d', x): the IEEE-754 little-endian image of each modelled double
DoubleTable ==
    << [v |-> 0,              bytes |-> <<0, 0, 0, 0, 0, 0, 0, 0>>],
       [v |-> 2,              bytes |-> <<58, 140, 48, 226, 142, 121, 53, 62>>],
       [v |-> 4,              bytes |-> <<58, 140, 48, 226, 142, 121, 69, 62>>],
       [v |-> Half,           bytes |-> <<0, 0, 0, 0, 0, 0, 224, 63>>],
       [v |-> One,            bytes |-> <<0, 0, 0, 0, 0, 0, 240, 63>>],
       [v |-> One + 2,        bytes |-> <<238, 152, 87, 1, 0, 0, 240, 63>>],
       [v |-> One + 6,        bytes |-> <<202, 202, 6, 4, 0, 0, 240, 63>>],
       [v |-> One + 12,       bytes |-> <<149, 149, 13, 8, 0, 0, 240, 63>>],
       [v |-> Two,            bytes |-> <<0, 0, 0, 0, 0, 0, 0, 64>>],
       [v |-> PaddingSentinel, bytes |-> <<24, 45, 68, 84, 251, 33, 9, 64>>] >>

Doubles == { DoubleTable[i].v : i \in DOMAIN DoubleTable }

Abs(x) == IF x < 0 THEN -x ELSE x

Zeros(k) == [i \in 1..k |-> 0]

\* struct.pack('d', x)
PackD(x) == (CHOOSE e \in { DoubleTable[i] : i \in DOMAIN DoubleTable } : e.v = x).bytes

\* struct.pack('I', n), little-endian; n must fit 32 bits
PackI(n) == << n % 256, (n \div 256) % 256, (n \div 65536) % 256, (n \div 16777216) % 256 >>

\* a float64 field read from 8 bytes
UnpackD(b) == (CHOOSE e \in { DoubleTable[i] : i \in DOMAIN DoubleTable } : e.bytes = b).v

\* a uint32 field read from 4 bytes
UnpackI(b) == b[1] + 256 * b[2] + 65536 * b[3] + 16777216 * b[4]

-----------------------------------------------------------------------------
(* Model.py: the record layout *)

\* the fixed number of layer slots of a record
MaxLayers == 20

\* Model._layer_dtype: five float64 fields
LayerDtype == << "a", "b", "c", "r", "density" >>
LayerItemSize == 8 * Len(LayerDtype)

\* Model._model_dtype: the fields in order, with their sizes in bytes
ModelDtype ==
    << [name |-> "angular_momentum",      size |-> 8],
       [name |-> "num_layers",            size |-> 4],
       [name |-> "_pad_to_16",            size |-> 4],
       [name |-> "layers",                size |-> MaxLayers * LayerItemSize],
       [name |-> "rel_equipotential_err", size |-> 8],
       [name |-> "total_energy",          size |-> 8],
       [name |-> "angular_velocity",      size |-> 8],
       [name |-> "moment_of_inertia",     size |-> 8],
       [name |-> "potential_energy",      size |-> 8],
       [name |-> "kinetic_energy",        size |-> 8],
       [name |-> "virial_ratio",          size |-> 8],
       [name |-> "padding_sentinel",      size |-> 8],
       [name |-> "score",                 size |-> 8] >>

RECURSIVE SizeBefore(_)
\* the bytes of the first k fields of _model_dtype (numpy packs them, no alignment)
SizeBefore(k) == IF k = 0 THEN 0 ELSE SizeBefore(k - 1) + ModelDtype[k].size

\* Model._model_dtype.itemsize
ModelItemSize == SizeBefore(Len(ModelDtype))

\* the byte offset of a field of _model_dtype
FieldOffset(name) ==
    SizeBefore((CHOOSE k \in DOMAIN ModelDtype : ModelDtype[k].name = name) - 1)

\* the output fields of a Model that to_struct writes from self.get(..., 0.0)
OutputFields ==
    << "rel_equipotential_err", "total_energy", "angular_velocity",
       "moment_of_inertia", "potential_energy", "kinetic_energy", "virial_ratio" >>

-----------------------------------------------------------------------------
(* Model.py: validation *)

HasKey(d, k) == k \in DOMAIN d

\* dict.get(k, default)
Get(d, k, default) == IF k \in DOMAIN d THEN d[k] ELSE default

\* the integer cube root (exact on the cubes the inputs produce)
ICbrt(n) == CHOOSE k \in 0..n : k * k * k <= n /\ (k + 1) * (k + 1) * (k + 1) > n

\* np.cbrt(a * b * c).  A common factor of 0.5 is taken out of the three
\* semi-axes first, so that the product stays in range: cbrt(s^3 * n) = s * cbrt(n)
Cbrt3(a, b, c) ==
    LET s == IF a % Half = 0 /\ b % Half = 0 /\ c % Half = 0 THEN Half ELSE 1
    IN  s * ICbrt((a \div s) * (b \div s) * (c \div s))

\* numpy's default absolute tolerance, atol = 1e-8, which isclose(.., rtol=1e-8) keeps
IsCloseATol == 4
\* 1 / rtol for rtol = 1e-8
RTolInv == 100000000

\* np.isclose(a, b, rtol=1e-8): |a - b| <= atol + rtol * |b|.  |a - b| is a whole
\* number of units, so rtol * |b| may be rounded down
IsClose(a, b) == Abs(a - b) <= IsCloseATol + (Abs(b) \div RTolInv)

\* one iteration of the loop of Model._recalculate
RecalcLayer(layer) ==
    IF ~HasKey(layer, "abc")
    THEN IF ~HasKey(layer, "r")
         THEN [err |-> "ValueError: must contain 'abc' or 'r'", layer |-> layer]
         ELSE [err |-> "", layer |-> ("abc" :> <<layer.r, layer.r, layer.r>>) @@ layer]
    ELSE LET r == Cbrt3(layer.abc[1], layer.abc[2], layer.abc[3])
         IN  IF ~HasKey(layer, "r")
             THEN [err |-> "", layer |-> ("r" :> r) @@ layer]
             ELSE IF ~IsClose(r, layer.r)
                  THEN [err |-> "ValueError: 'abc' and 'r' must be consistent", layer |-> layer]
                  ELSE [err |-> "", layer |-> layer]

\* Model._recalculate over self['layers']: the first bad layer raises
Recalculate(layers) ==
    LET bad == { i \in DOMAIN layers : RecalcLayer(layers[i]).err # "" }
    IN  IF bad # {}
        THEN [err |-> RecalcLayer(layers[CHOOSE i \in bad : \A j \in bad : i <= j]).err,
              layers |-> layers]
        ELSE [err |-> "", layers |-> [i \in DOMAIN layers |-> RecalcLayer(layers[i]).layer]]

\* Model.__init__(d): dict.__init__, then _recalculate
ModelInit(d) ==
    LET rc == Recalculate(d.layers)
    IN  IF rc.err # "" THEN [err |-> rc.err, model |-> NoModel]
        ELSE [err |-> "", model |-> [d EXCEPT !.layers = rc.layers]]

-----------------------------------------------------------------------------
(* Model.py: to_struct *)

\* the header: struct.pack('dI', angular_momentum, len(layers)) and 4 bytes of padding
StructHeader(m) == PackD(m.angular_momentum) \o PackI(Len(m.layers)) \o Zeros(4)

StructSlotUnpadded(m, i) ==
    LET layer == m.layers[IF i < Len(m.layers) THEN i + 1 ELSE Len(m.layers)]
    IN  IF m.layers = <<>> THEN Zeros(40)
        ELSE PackD(layer.abc[1]) \o PackD(layer.abc[2]) \o PackD(layer.abc[3])
             \o PackD(layer.r) \o PackD(layer.density)

\* one of the 20 layer slots, i counted from 0 as in the source
StructSlot(m, i) ==
    IF i < Len(m.layers)
    THEN LET layer == m.layers[i + 1]
         IN  PackD(layer.abc[1]) \o PackD(layer.abc[2]) \o PackD(layer.abc[3])
             \o PackD(layer.r) \o PackD(layer.density)
    ELSE Zeros(40)

RECURSIVE StructSlots(_, _)
\* the loop "for i in range(20)", from slot i on
StructSlots(m, i) ==
    IF i >= MaxLayers THEN <<>> ELSE StructSlot(m, i) \o StructSlots(m, i + 1)

RECURSIVE StructOutputs(_, _)
\* the output fields from the k-th on, each self.get(field, 0.0)
StructOutputs(m, k) ==
    IF k > Len(OutputFields) THEN <<>>
    ELSE PackD(Get(m, OutputFields[k], 0)) \o StructOutputs(m, k + 1)

\* the trailer: seven output fields and the sentinel
StructTrailer(m) == StructOutputs(m, 1) \o PackD(PaddingSentinel)

\* Model.to_struct
ToStructBytes(m) == StructHeader(m) \o StructSlots(m, 0) \o StructTrailer(m)

-----------------------------------------------------------------------------
(* Model.py: reading a record, from_struct *)

\* n bytes of b from byte offset off
Slice(b, off, n) == SubSeq(b, off + 1, off + n)

\* the float64 field name of the record at the head of b
FieldD(b, name) == UnpackD(Slice(b, FieldOffset(name), 8))

\* the k-th float64 (from 0) of layer slot i (from 0) of the record at the head of b
LayerD(b, i, k) == UnpackD(Slice(b, FieldOffset("layers") + i * LayerItemSize + 8 * k, 8))

\* b viewed as one record of Model._model_dtype
RecordOf(b) ==
    [ f \in { ModelDtype[k].name : k \in DOMAIN ModelDtype } \ {"_pad_to_16"} |->
        IF f = "num_layers" THEN UnpackI(Slice(b, FieldOffset(f), 4))
        ELSE IF f = "layers"
             THEN [ i \in 1..MaxLayers |->
                      [a |-> LayerD(b, i - 1, 0), b |-> LayerD(b, i - 1, 1),
                       c |-> LayerD(b, i - 1, 2), r |-> LayerD(b, i - 1, 3),
                       density |-> LayerD(b, i - 1, 4)] ]
             ELSE FieldD(b, f) ]

\* np.frombuffer(b, dtype=Model._model_dtype, count=1)[0]: the buffer has to hold
\* one whole item
FromBuffer(b) ==
    IF Len(b) < ModelItemSize
    THEN [err |-> "ValueError: buffer is smaller than requested size"]
    ELSE [err |-> "", rec |-> RecordOf(b)]

\* s['layers'][:num_layers]
Take(seq, n) == SubSeq(seq, 1, IF n < Len(seq) THEN n ELSE Len(seq))

\* Model.from_struct ends with "return model", the dict literal it built (not
\* cls(model)): the class of the object it returns
FromStructClass == "dict"

\* Model.from_struct: a plain dict, without the score
FromStruct(s) ==
    [ k \in { "angular_momentum", "layers", "padding_sentinel" }
            \cup { OutputFields[j] : j \in DOMAIN OutputFields } |->
        IF k = "layers"
        THEN LET ls == Take(s.layers, s.num_layers)
             IN  [ i \in DOMAIN ls |->
                     [abc |-> <<ls[i].a, ls[i].b, ls[i].c>>, r |-> ls[i].r,
                      density |-> ls[i].density] ]
        ELSE s[k] ]

-----------------------------------------------------------------------------
(* The arguments the callers pass to Model(...) *)

\* the layer dicts: semi-axes only, radius only, both (consistent, nearly
\* consistent, inconsistent), neither
LayerInputs ==
    { [abc |-> <<One, One, One>>, density |-> One],
      [r |-> Two, density |-> One],
      [abc |-> <<Half, One, Two>>, r |-> One, density |-> Two],
      [density |-> One],
      [abc |-> <<One, One, One>>, r |-> One + 2, density |-> One],
      [abc |-> <<One, One, One>>, r |-> One + 6, density |-> One],
      [abc |-> <<One, One, One>>, r |-> One + 12, density |-> One],
      [abc |-> <<0, 0, 0>>, r |-> 2, density |-> One] }

\* a list of n layers that fills the record: semi-axes only and radius only, in turn
FullLayers(n) ==
    [i \in 1..n |-> IF i % 2 = 1 THEN [abc |-> <<One, One, One>>, density |-> One]
                    ELSE [r |-> Two, density |-> Half]]

LayerLists ==
    UNION { [1..n -> LayerInputs] : n \in 0..MaxLayersIn }
        \cup { FullLayers(MaxLayers), FullLayers(MaxLayers + 1) }

\* output fields a dict may already carry (none, or those of an evaluated model)
OutputInputs == { <<>>, [rel_equipotential_err |-> 2, total_energy |-> Two] }

ModelInputs ==
    { [angular_momentum |-> am, layers |-> ls] @@ outs :
        am \in {0, Half}, ls \in LayerLists, outs \in OutputInputs }

-----------------------------------------------------------------------------
(* compute_harness.py: descriptors *)

\* an absent optional argument (None) is the empty tuple, a given one <<value>>
None == <<>>
Some(v) == <<v>>

\* the element types the callers use: np.uint8 and np.float64 are passed as
\* types, structured dtypes as np.dtype objects
U8 == [name |-> "np.uint8", is_type |-> TRUE, itemsize |-> 1]
F64 == [name |-> "np.float64", is_type |-> TRUE, itemsize |-> 8]
ModelRecord == [name |-> "Model._model_dtype", is_type |-> FALSE, itemsize |-> ModelItemSize]

\* BufferSpec.byte_size
ByteSize(spec) ==
    IF spec.dtype.is_type /\ spec.dtype.name = "np.uint8"
    THEN spec.count
    ELSE spec.count * spec.dtype.itemsize

\* BufferSpec.usage
Usage(spec) ==
    IF spec.mode = "in" THEN "GL_STATIC_DRAW"
    ELSE IF spec.mode = "out" THEN "GL_DYNAMIC_READ"
    ELSE "GL_DYNAMIC_COPY"

\* the type tags GLSLComputeProgram._set_uniform has a branch for
UniformTypes ==
    { "1i", "1ui", "1f", "1d",
      "2f", "3f", "4f", "2i", "3i", "4i", "2ui", "3ui", "4ui", "2d", "3d", "4d",
      "1fv", "2fv", "3fv", "4fv", "1iv", "2iv", "3iv", "4iv",
      "1uiv", "2uiv", "3uiv", "4uiv", "1dv", "2dv", "3dv", "4dv",
      "matrix2fv", "matrix3fv", "matrix4fv", "matrix2dv", "matrix3dv", "matrix4dv" }

\* the uniforms the compiled kernel declares: those explore_variations sets
KernelUniforms == { "num_variations", "seed", "annealing_temperature" }

-----------------------------------------------------------------------------
(* The GL context, as far as the harness drives it *)

\* names:   the buffer names glGenBuffers has handed out and not deleted
\* store:   the data store of each buffer that has one: size, usage, data
\* array:   the buffer bound to GL_SHADER_STORAGE_BUFFER (0: none)
\* base:    the buffers bound to the indexed binding points (absent: none)
\* current: the program in use (0: none)
\* programs: the linked program objects
InitGL == [names |-> {}, store |-> <<>>, array |-> 0, base |-> <<>>,
           current |-> 0, programs |-> {}]

\* the step state of a call in progress: the program object, the GL context,
\* the GL calls so far, the results collected, the exception raised ("": none)
\* and its message, what was printed, and the number of the run within the call
Step(p, g, r) ==
    [prog |-> p, gl |-> g, calls |-> <<>>, results |-> <<>>, err |-> "", msg |-> <<>>,
     out |-> <<>>, run |-> r]

\* record one GL call
GlCall(st, fn, args) ==
    [st EXCEPT !.calls = Append(@, [fn |-> fn, args |-> args, run |-> st.run])]

Raise(st, e) == [st EXCEPT !.err = e]

\* f with key k set to v, whether or not k is in its domain
Put(f, k, v) == (k :> v) @@ f

\* glGenBuffers(1): an unused name (the lowest, as drivers hand them out)
GenName(g) == CHOOSE n \in 1..(Cardinality(g.names) + 1) : n \notin g.names

\* glBindBufferBase(GL_SHADER_STORAGE_BUFFER, index, buf) binds the indexed
\* point and the generic one
BindBufferBase(st, index, buf) ==
    LET s == GlCall(st, "glBindBufferBase", <<index, buf>>)
    IN  [s EXCEPT !.gl.base = IF buf = 0 THEN [i \in DOMAIN @ \ {index} |-> @[i]]
                               ELSE Put(@, index, buf),
                  !.gl.array = buf]

BindBuffer(st, buf) ==
    [GlCall(st, "glBindBuffer", <<buf>>) EXCEPT !.gl.array = buf]

\* glBufferData(GL_SHADER_STORAGE_BUFFER, size, data, usage) on the bound buffer
BufferData(st, size, data, usage) ==
    LET s == GlCall(st, "glBufferData", <<size, data, usage>>)
    IN  [s EXCEPT !.gl.store = Put(@, st.gl.array, [size |-> size, usage |-> usage, data |-> data])]

-----------------------------------------------------------------------------
(* GLSLComputeProgram *)

SetupBufferOnce(st, spec) ==
    LET fresh == spec.binding \notin DOMAIN st.prog.ssbos
        name == GenName(st.gl)
        s1 == [GlCall(st, "glGenBuffers", <<1>>) EXCEPT
                  !.gl.names = @ \cup {name},
                  !.prog.ssbos = Put(@, spec.binding, name)]
        data == IF spec.initial_data # None THEN "initial_data" ELSE "None"
    IN  IF ~fresh THEN BindBuffer(BindBuffer(st, st.prog.ssbos[spec.binding]), 0)
        ELSE IF spec.initial_data # None /\ spec.initial_data[1].nbytes # ByteSize(spec)
             THEN Raise(BindBuffer(s1, name), "AssertionError")
             ELSE BindBuffer(BufferData(BindBuffer(s1, name), ByteSize(spec), data, Usage(spec)), 0)

\* GLSLComputeProgram._setup_buffer
SetupBuffer(st, spec) ==
    LET fresh == spec.binding \notin DOMAIN st.prog.ssbos
        name == GenName(st.gl)
        s1 == IF fresh
              THEN [GlCall(st, "glGenBuffers", <<1>>) EXCEPT
                        !.gl.names = @ \cup {name},
                        !.prog.ssbos = Put(@, spec.binding, name)]
              ELSE st
        ssbo == s1.prog.ssbos[spec.binding]
        s2 == BindBuffer(s1, ssbo)
        byte_size == ByteSize(spec)
    IN  IF spec.initial_data # None
        THEN IF spec.initial_data[1].nbytes # byte_size
             THEN Raise(s2, "AssertionError")
             ELSE BindBuffer(BufferData(s2, byte_size, "initial_data", Usage(spec)), 0)
        ELSE BindBuffer(BufferData(s2, byte_size, "None", Usage(spec)), 0)

RECURSIVE SetupAll(_, _, _)
\* run: "for spec in buffers" of the setup, from the k-th descriptor on
SetupAll(st, buffers, k) ==
    IF st.err # "" \/ k > Len(buffers) THEN st
    ELSE LET s1 == SetupBuffer(st, buffers[k])
         IN  IF s1.err # "" THEN s1
             ELSE SetupAll(BindBufferBase(s1, buffers[k].binding,
                                          s1.prog.ssbos[buffers[k].binding]),
                           buffers, k + 1)

UseProgram(st, handle) ==
    IF st.err # "" THEN st
    ELSE [GlCall(st, "glUseProgram", <<handle>>) EXCEPT !.gl.current = handle]

\* GLSLComputeProgram._set_uniform; a handle that is not a program object is
\* a GL_INVALID_VALUE, which PyOpenGL raises
SetUniform(st, spec) ==
    LET s1 == GlCall(st, "glGetUniformLocation", <<st.prog.program, spec.name>>)
    IN  IF st.prog.program \notin st.gl.programs
        THEN Raise(s1, "GLError: GL_INVALID_VALUE")
        ELSE IF spec.name \notin KernelUniforms THEN s1
        ELSE IF spec.uniform_type \in UniformTypes
             THEN GlCall(s1, "glUniform", <<spec.name, spec.uniform_type>>)
             ELSE Raise(s1, "ValueError: Unsupported uniform type")

RECURSIVE SetUniforms(_, _, _)
\* run: "for uniform in uniforms", from the k-th on
SetUniforms(st, uniforms, k) ==
    IF st.err # "" \/ k > Len(uniforms) THEN st
    ELSE SetUniforms(SetUniform(st, uniforms[k]), uniforms, k + 1)

GroupsXFloor(num_invocations, local_size_x) == num_invocations \div local_size_x

\* run: groups_x = (num_invocations + local_size_x - 1) // local_size_x
GroupsX(num_invocations, local_size_x) ==
    (num_invocations + local_size_x - 1) \div local_size_x

\* what the kernel leaves in the buffers bound to the indexed points: every
\* buffer not declared read-only input holds the output of this dispatch
KernelWrites(g) ==
    [g EXCEPT !.store =
        [n \in DOMAIN @ |->
            IF n \in { g.base[i] : i \in DOMAIN g.base } /\ @[n].usage # "GL_STATIC_DRAW"
            THEN [@[n] EXCEPT !.data = "kernel"]
            ELSE @[n]]]

\* run: GL.glDispatchCompute(groups_x, 1, 1); with no program in use the call
\* is a GL_INVALID_OPERATION, which PyOpenGL raises
Dispatch(st, groups_x) ==
    IF st.err # "" THEN st
    ELSE LET s == GlCall(st, "glDispatchCompute", <<groups_x, 1, 1>>)
         IN  IF st.gl.current \notin st.gl.programs
             THEN Raise(s, "GLError: GL_INVALID_OPERATION")
             ELSE [s EXCEPT !.gl = IF groups_x > 0 THEN KernelWrites(@) ELSE @]

SynchronizeNoFinish(st) ==
    IF st.err # "" THEN st
    ELSE GlCall(st, "glMemoryBarrier", <<"GL_ALL_BARRIER_BITS">>)

\* run: the memory barrier and the blocking glFinish
Synchronize(st) ==
    IF st.err # "" THEN st
    ELSE GlCall(GlCall(st, "glMemoryBarrier", <<"GL_ALL_BARRIER_BITS">>), "glFinish", <<>>)

\* np.frombuffer(raw_bytes, dtype=spec.dtype, count=spec.count): the array, by
\* its length, the bytes it views, and the buffer and contents they were read from
FromRaw(spec, nbytes, buf, data) ==
    [count |-> spec.count, nbytes |-> nbytes, dtype |-> spec.dtype.name,
     buf |-> buf, data |-> data, run |-> 0]

\* GLSLComputeProgram._read_buffer; reading past the end of the data store is
\* a GL_INVALID_VALUE, which PyOpenGL raises
ReadBuffer(st, spec) ==
    LET ssbo == st.prog.ssbos[spec.binding]
        s1 == BindBuffer(st, ssbo)
        byte_size == ByteSize(spec)
        s2 == GlCall(s1, "glGetBufferSubData", <<ssbo, 0, byte_size>>)
    IN  IF byte_size > s1.gl.store[ssbo].size
        THEN Raise(s2, "GLError: GL_INVALID_VALUE")
        ELSE [BindBuffer(s2, 0) EXCEPT
                !.results = Put(@, spec.binding,
                                [FromRaw(spec, byte_size, ssbo, s1.gl.store[ssbo].data)
                                    EXCEPT !.run = st.run])]

ReadsModesAll == {"in", "out", "inout"}

\* run: the modes that are read back
ReadsModes == {"out", "inout"}

RECURSIVE ReadAll(_, _, _)
\* run: the readback loop, from the k-th descriptor on
ReadAll(st, buffers, k) ==
    IF st.err # "" \/ k > Len(buffers) THEN st
    ELSE ReadAll(IF buffers[k].mode \in ReadsModes THEN ReadBuffer(st, buffers[k]) ELSE st,
                 buffers, k + 1)

RECURSIVE UnbindAll(_, _, _)
UnbindAll(st, buffers, k) ==
    IF k > Len(buffers) THEN st
    ELSE UnbindAll(BindBufferBase(st, buffers[k].binding, 0), buffers, k + 1)

\* run: the cleanup at its end
RunCleanup(st, buffers) ==
    IF st.err # "" THEN st
    ELSE UnbindAll(UseProgram(st, 0), buffers, 1)

\* GLSLComputeProgram.run(buffers, uniforms, num_invocations, local_size_x),
\* from step state st to the step state it returns or raises in
RunProgram(st, buffers, uniforms, num_invocations, local_size_x) ==
    LET lsx == IF local_size_x = None THEN st.prog.local_size_x ELSE local_size_x[1]
        n == IF num_invocations = None
             THEN (IF buffers # <<>> THEN buffers[1].count ELSE 0)
             ELSE num_invocations[1]
        s1 == SetupAll([st EXCEPT !.results = <<>>], buffers, 1)
        s2 == UseProgram(s1, st.prog.program)
        s3 == SetUniforms(s2, uniforms, 1)
        s4 == Dispatch(s3, GroupsX(n, lsx))
        s5 == Synchronize(s4)
        s6 == ReadAll(s5, buffers, 1)
    IN  RunCleanup(s6, buffers)

RECURSIVE DeleteBuffers(_, _)
\* cleanup: glDeleteBuffers(1, [ssbo]) for every buffer of the table, in the
\* order they were generated
DeleteBuffers(st, names) ==
    IF names = {} THEN st
    ELSE LET n == CHOOSE x \in names : \A y \in names : x <= y
             s == GlCall(st, "glDeleteBuffers", <<1, n>>)
         IN  DeleteBuffers(
                [s EXCEPT !.gl.names = @ \ {n},
                          !.gl.store = [k \in DOMAIN @ \ {n} |-> @[k]],
                          !.gl.base = [i \in { j \in DOMAIN @ : @[j] # n } |-> @[i]],
                          !.gl.array = IF @ = n THEN 0 ELSE @],
                names \ {n})

CleanupKeepTable(st) ==
    LET h == st.prog.program
        s1 == IF h # 0
              THEN [GlCall(st, "glDeleteProgram", <<h>>) EXCEPT
                        !.gl.programs = @ \ {h},
                        !.prog.program = 0]
              ELSE st
    IN  DeleteBuffers(s1, { s1.prog.ssbos[b] : b \in DOMAIN s1.prog.ssbos })

\* GLSLComputeProgram.cleanup
CleanupProgram(st) ==
    LET h == st.prog.program
        s1 == IF h # 0
              THEN [GlCall(st, "glDeleteProgram", <<h>>) EXCEPT
                        !.gl.programs = @ \ {h},
                        !.prog.program = 0]
              ELSE st
        s2 == DeleteBuffers(s1, { s1.prog.ssbos[b] : b \in DOMAIN s1.prog.ssbos })
    IN  [s2 EXCEPT !.prog.ssbos = <<>>]

\* the default of GLSLComputeProgram.local_size_x
DefaultLocalSize == 256

\* GLSLComputeProgram.__init__ followed by a successful _compile: the program
\* object, given the handle the driver returned
NewProgram(handle) == [program |-> handle, ssbos |-> <<>>, local_size_x |-> DefaultLocalSize]

InitHarness ==
    /\ shader_initialized = FALSE
    /\ program = NoProgram
    /\ gl = InitGL
    /\ calls = <<>>
    /\ ret = [op |-> "none"]

-----------------------------------------------------------------------------
(* SpecModel: constructing, serializing and reading back a Model *)

NoCtor == [status |-> "none"]
NoRt == [status |-> "none"]

InitModel ==
    /\ pc = "idle"
    /\ model = NoModel
    /\ ctor = NoCtor
    /\ struct_bytes = <<>>
    /\ rt = NoRt
    /\ InitHarness

\* m = Model(d)
Construct ==
    /\ ctor.status = "none"
    /\ \E d \in ModelInputs :
         \E res \in { ModelInit(d) } :
            /\ ctor' = [status |-> IF res.err = "" THEN "ok" ELSE res.err, input |-> d]
            /\ model' = res.model
    /\ UNCHANGED <<pc, struct_bytes, rt, harnessVars>>

\* input_bytes = m.to_struct()
ToStruct ==
    /\ ctor.status = "ok"
    /\ struct_bytes = <<>>
    /\ struct_bytes' = ToStructBytes(model)
    /\ UNCHANGED <<pc, model, ctor, rt, harnessVars>>

\* Model.from_struct(np.frombuffer(input_bytes, dtype=Model._model_dtype, count=1)[0])
ReadBack ==
    /\ struct_bytes # <<>>
    /\ rt.status = "none"
    /\ LET fb == FromBuffer(struct_bytes)
       IN  rt' = IF fb.err # "" THEN [status |-> fb.err, model |-> NoModel]
                 ELSE [status |-> "ok", model |-> FromStruct(fb.rec)]
    /\ UNCHANGED <<pc, model, ctor, struct_bytes, harnessVars>>

\* the caller drops the model and what it derived from it
Discard ==
    /\ ctor.status # "none"
    /\ model' = NoModel
    /\ ctor' = NoCtor
    /\ struct_bytes' = <<>>
    /\ rt' = NoRt
    /\ UNCHANGED <<pc, harnessVars>>

NextModel ==
    \/ Construct
    \/ ToStruct
    \/ ReadBack
    \/ Discard

SpecModel == InitModel /\ [][NextModel]_vars

-----------------------------------------------------------------------------
(* SpecRun: a script drives one compiled GLSLComputeProgram *)

\* bounds of the arguments enumerated for run
MaxBinding == 1
MaxBuffers == 2
MaxUniforms == 1
MaxInvocations == 3
MaxGroupSize == 2
MaxRuns == 2

\* the number of elements of every enumerated descriptor
ElementCount == 2

Modes == {"in", "out", "inout"}

\* raw bytes go in, doubles come out, whole records go both ways
DtypeOf(mode) == IF mode = "in" THEN U8 ELSE IF mode = "out" THEN F64 ELSE ModelRecord

BufferSpec(binding, dtype, count, mode, initial_data) ==
    [binding |-> binding, dtype |-> dtype, count |-> count, mode |-> mode,
     initial_data |-> initial_data]

\* the payloads tried with a descriptor: none, one of byte_size bytes, one a byte longer
Payloads(mode) ==
    LET size == ByteSize(BufferSpec(0, DtypeOf(mode), ElementCount, mode, None))
    IN  { None, Some([nbytes |-> size]), Some([nbytes |-> size + 1]) }

BufferInputs ==
    UNION { { BufferSpec(b, DtypeOf(m), ElementCount, m, d) :
                b \in 0..MaxBinding, d \in Payloads(m) } : m \in Modes }

UniformSpec(name, uniform_type) == [name |-> name, uniform_type |-> uniform_type]

\* a uniform of the kernel and one it does not declare, each with a supported
\* and an unsupported type tag
UniformInputs ==
    { UniformSpec(n, t) : n \in {"seed", "no_such_uniform"}, t \in {"1ui", "1q"} }

ListsOf(S, n) == UNION { [1..k -> S] : k \in 0..n }

\* the (num_invocations, local_size_x) pairs tried: absent, small, and the
\* 1000 invocations in groups of 256 of the documentation
SizeInputs ==
    { <<n, g>> : n \in {None} \cup { Some(k) : k \in 0..MaxInvocations },
                 g \in {None} \cup { Some(k) : k \in 1..MaxGroupSize } }
        \cup { <<Some(1000), Some(DefaultLocalSize)>>, <<Some(DefaultLocalSize + 1), None>> }

\* the descriptor lists: run stops at the first payload of the wrong length,
\* so only the last descriptor of a list carries one
BufferLists ==
    { b \in ListsOf(BufferInputs, MaxBuffers) :
        \A k \in 1..(Len(b) - 1) :
            b[k].initial_data = None \/ b[k].initial_data[1].nbytes = ByteSize(b[k]) }

\* the short lists: no descriptor, or one at binding 0 with a payload of the
\* right length or none
ShortLists ==
    { b \in ListsOf(BufferInputs, 1) :
        \A k \in DOMAIN b :
            /\ b[k].binding = 0
            /\ b[k].initial_data = None \/ b[k].initial_data[1].nbytes = ByteSize(b[k]) }

\* the argument lists of run: every descriptor list alone, and the short
\* ones with every uniform list and with every size pair
RunArgs(b, u, z) ==
    [buffers |-> b, uniforms |-> u, num_invocations |-> z[1], local_size_x |-> z[2]]

RunInputs ==
    { RunArgs(b, <<>>, <<None, None>>) : b \in BufferLists }
    \cup
    { RunArgs(b, u, <<None, None>>) :
        b \in ShortLists, u \in ListsOf(UniformInputs, MaxUniforms) }
    \cup
    { RunArgs(b, <<>>, z) : b \in ShortLists, z \in SizeInputs }

\* the calls a script makes after its first: a short list, sizes defaulted
OtherInputs == { RunArgs(b, <<>>, <<None, None>>) : b \in ShortLists }

\* the handle of the linked program (glCreateProgram's first name)
FirstProgram == 1

InitRun ==
    /\ pc = "idle"
    /\ model = NoModel
    /\ ctor = NoCtor
    /\ struct_bytes = <<>>
    /\ rt = NoRt
    /\ shader_initialized = FALSE
    /\ program = NewProgram(FirstProgram)
    /\ gl = [InitGL EXCEPT !.programs = {FirstProgram}]
    /\ calls = <<>>
    /\ ret = [op |-> "none"]

\* what a call of run leaves behind
AfterRun(a, runs) ==
    \E st \in { RunProgram(Step(program, gl, 1), a.buffers, a.uniforms,
                            a.num_invocations, a.local_size_x) } :
        /\ program' = st.prog
        /\ gl' = st.gl
        /\ calls' = st.calls
        /\ ret' = [op |-> "run", args |-> a, err |-> st.err, runs |-> runs,
                   results |-> IF st.err = "" THEN st.results ELSE <<>>]
        /\ pc' = "returned"
        /\ UNCHANGED <<modelVars, shader_initialized>>

\* results = program.run(buffers, uniforms, num_invocations, local_size_x)
Run ==
    /\ pc = "idle"
    /\ \E a \in RunInputs : AfterRun(a, 1)

\* the same call once more, as a script that repeats its dispatch makes it
RunAgain ==
    /\ pc = "returned"
    /\ ret.op = "run"
    /\ ret.runs < MaxRuns
    /\ AfterRun(ret.args, ret.runs + 1)

\* another call on the same program, with other descriptors
RunOther ==
    /\ pc = "returned"
    /\ ret.op = "run"
    /\ ret.runs < MaxRuns
    /\ \E a \in OtherInputs : a # ret.args /\ AfterRun(a, ret.runs + 1)

\* program.cleanup()
Cleanup ==
    /\ \E st \in { CleanupProgram(Step(program, gl, 1)) } :
          /\ program' = st.prog
          /\ gl' = st.gl
          /\ calls' = st.calls
    /\ ret' = [op |-> "cleanup"]
    /\ pc' = "idle"
    /\ UNCHANGED <<modelVars, shader_initialized>>

NextRun ==
    \/ Run
    \/ RunAgain
    \/ RunOther
    \/ Cleanup

SpecRun == InitRun /\ [][NextRun]_vars

-----------------------------------------------------------------------------
(* Model.explore_variations *)

\* harness.create_program(path, config): GLSLComputeProgram.__init__ and
\* _compile; compile_ok is whether the driver compiles and links the kernel
CreateProgram(st, compile_ok) ==
    LET s1 == GlCall(st, "compileShader", <<"GL_COMPUTE_SHADER">>)
        handle == CHOOSE n \in 1..(Cardinality(st.gl.programs) + 1) : n \notin st.gl.programs
    IN  IF ~compile_ok
        THEN Raise(s1, "RuntimeError: Compute shader compilation failed")
        ELSE [GlCall(s1, "compileProgram", <<handle>>) EXCEPT
                !.gl.programs = @ \cup {handle},
                !.prog = NewProgram(handle)]

\* explore_variations: local_size = 256
LocalSize == 256

NumWorkgroupsFloor(num_variants) == num_variants \div LocalSize

NumWorkgroupsAtLeastOne(num_variants) ==
    IF num_variants = 0 THEN 1 ELSE (num_variants + LocalSize - 1) \div LocalSize

\* explore_variations: num_workgroups = (num_variants + local_size - 1) // local_size
NumWorkgroups(num_variants) == (num_variants + LocalSize - 1) \div LocalSize

\* explore_variations: the four buffer descriptors
ExploreBuffers(m, num_variants) ==
    LET input_bytes == ToStructBytes(m)
    IN  << BufferSpec(0, U8, Len(input_bytes), "in", Some([nbytes |-> Len(input_bytes)])),
           BufferSpec(1, ModelRecord, num_variants, "out", None),
           BufferSpec(2, ModelRecord, NumWorkgroups(num_variants), "out", None),
           BufferSpec(3, F64, NumWorkgroups(num_variants), "out", None) >>

\* explore_variations: the three uniforms
ExploreUniforms ==
    << UniformSpec("num_variations", "1ui"), UniformSpec("seed", "1ui"),
       UniformSpec("annealing_temperature", "1d") >>

\* the step state in which the n-th run of a call starts
NextRunOf(st, n) == IF st.err # "" THEN st ELSE [st EXCEPT !.run = n]

ExploreRunsEager(m, st, initialized, num_variants, compile_ok) ==
    LET s0 == CreateProgram(st, compile_ok)
        buffers == ExploreBuffers(m, num_variants)
        s1 == IF s0.err # "" THEN s0
              ELSE RunProgram(s0, buffers, ExploreUniforms, Some(num_variants), None)
    IN  IF s1.err # "" THEN s1
        ELSE RunProgram(NextRunOf(s1, 2), buffers, ExploreUniforms, Some(num_variants), None)

\* explore_variations up to the reduction: the lazy creation of the program
\* and the calls of self.program.run
ExploreRuns(m, st, initialized, num_variants, compile_ok) ==
    LET s0 == IF initialized THEN st ELSE CreateProgram(st, compile_ok)
        buffers == ExploreBuffers(m, num_variants)
        s1 == IF s0.err # "" THEN s0
              ELSE RunProgram(s0, buffers, ExploreUniforms, Some(num_variants), None)
    IN  IF s1.err # "" THEN s1
        ELSE RunProgram(NextRunOf(s1, 2), buffers, ExploreUniforms, Some(num_variants), None)

-----------------------------------------------------------------------------
(* The kernel of explore_variations, as the design describes it: invocation i *)
(* writes one scored variant of the template, and every group of LocalSize    *)
(* invocations writes the best variant it found and that variant's score      *)

\* the invocations whose outcome is varied: the first two and the last
Positions(N) == {1, 2, N} \cap (1..N)

\* the invocations (from 1) of group g (from 0); the last group may be partly filled
GroupMembers(g, N) == { i \in 1..N : (i - 1) \div LocalSize = g }

\* the number of groups that run: those that hold an invocation
KernelGroups(N) == Cardinality({ (i - 1) \div LocalSize : i \in 1..N })

\* the invocations of group g that may be reported as its best: those of the
\* lowest score, which are the low ones if there are any
PickCandidates(g, N, low) ==
    IF low \cap GroupMembers(g, N) # {} THEN low \cap GroupMembers(g, N)
    ELSE (Positions(N) \cap GroupMembers(g, N)) \cup {g * LocalSize + 1}

\* what one dispatch may produce: the invocations that score low (the others
\* score high), those whose variant has the small error (the others the large
\* one), and for every group the invocation it reports as its best
KernelOutcomes(N) ==
    UNION { { [low |-> L, small |-> D, pick |-> p] :
                D \in SUBSET Positions(N),
                p \in { f \in [0..(KernelGroups(N) - 1) ->
                                  UNION { PickCandidates(g, N, L) :
                                            g \in 0..(KernelGroups(N) - 1) }] :
                          \A g \in DOMAIN f : f[g] \in PickCandidates(g, N, L) } } :
            L \in SUBSET Positions(N) }

\* S[i]: the score of invocation i
VariantScore(ko, i) == IF i \in ko.low THEN One ELSE Two

\* the relative equipotential error of the variant of invocation i
VariantErr(ko, i) == IF i \in ko.small THEN 2 ELSE 4

\* the template as a device record: the serialized template, score unset
TemplateRecord(m) == RecordOf(ToStructBytes(m) \o PackD(0))

\* the record invocation i writes, t being the template's record
VariantRecord(t, ko, i) ==
    [t EXCEPT !.rel_equipotential_err = VariantErr(ko, i),
              !.score = VariantScore(ko, i)]

\* binding 1: the N variants
KernelAll(t, N, ko) == [i \in 1..N |-> VariantRecord(t, ko, i)]

\* binding 3: B[g], the best score of every group
KernelGroupScores(N, ko) ==
    [g \in 1..KernelGroups(N) |->
        IF ko.low \cap GroupMembers(g - 1, N) # {} THEN One ELSE Two]

\* binding 2: the best variant of every group
KernelGroupModels(t, N, ko) ==
    [g \in 1..KernelGroups(N) |-> VariantRecord(t, ko, ko.pick[g - 1])]

\* the array run returned for a binding: as many elements as the descriptor
\* counts, viewing what the kernel left in the buffer
ArrayOf(result, content) == Take(content, result.count)

-----------------------------------------------------------------------------
(* explore_variations: the reduction and the top-k list *)

ArgMax(a) ==
    CHOOSE i \in DOMAIN a : \A j \in DOMAIN a : a[j] <= a[i]

\* np.argmin: the index (from 1) of the first minimum; an empty array raises
ArgMin(a) ==
    CHOOSE i \in DOMAIN a : (\A j \in DOMAIN a : a[j] >= a[i])
                            /\ (\A j \in DOMAIN a : j < i => a[j] > a[i])

\* the comparison of ndarray.sort(order='score'): the score first, then the
\* other fields in the order of the dtype, which numpy uses to break ties
SortFields ==
    << "score", "angular_momentum", "num_layers", "layers", "rel_equipotential_err",
       "total_energy", "angular_velocity", "moment_of_inertia", "potential_energy",
       "kinetic_energy", "virial_ratio", "padding_sentinel" >>

LayerKey(l) == << l.a, l.b, l.c, l.r, l.density >>

\* lexicographic order of two sequences of numbers of one length
LexLess(x, y) ==
    \E k \in DOMAIN x : x[k] < y[k] /\ \A j \in 1..(k - 1) : x[j] = y[j]

LayersLess(x, y) ==
    \E k \in DOMAIN x :
        /\ LexLess(LayerKey(x[k]), LayerKey(y[k]))
        /\ \A j \in 1..(k - 1) : x[j] = y[j]

RecLess(x, y) ==
    IF x.score # y.score THEN x.score < y.score
    ELSE LET diff == { k \in DOMAIN SortFields : x[SortFields[k]] # y[SortFields[k]] }
         IN  IF diff = {} THEN FALSE
             ELSE LET f == SortFields[CHOOSE k \in diff : \A j \in diff : k <= j]
                  IN  IF f = "layers" THEN LayersLess(x.layers, y.layers)
                      ELSE x[f] < y[f]

\* the index of the least record among those not taken; records that compare
\* equal in every field are the same bytes, so the first of them stands for all
MinIndex(recs, taken) ==
    LET rest == { recs[i] : i \in DOMAIN recs \ taken }
        least == CHOOSE r \in rest : \A q \in rest : ~RecLess(q, r)
    IN  CHOOSE i \in DOMAIN recs \ taken :
            recs[i] = least /\ \A j \in DOMAIN recs \ taken : recs[j] = least => i <= j

RECURSIVE SortedPrefix(_, _, _)
\* raw_results.sort(order='score'); raw_results[:k]
SortedPrefix(recs, taken, k) ==
    IF k <= 0 \/ Cardinality(taken) >= Len(recs) THEN <<>>
    ELSE LET i == MinIndex(recs, taken)
         IN  <<recs[i]>> \o SortedPrefix(recs, taken \cup {i}, k - 1)

\* explore_variations after the runs: the global best among the group bests,
\* and the list returned with it; t is the template's record, ko what the
\* kernel produced from it
Reduce(t, results, N, ko, top_k) ==
    LET workgroup_models == ArrayOf(results[2], KernelGroupModels(t, N, ko))
        workgroup_scores == ArrayOf(results[3], KernelGroupScores(N, ko))
        k == IF top_k = None THEN 1 ELSE top_k[1]
    IN  IF workgroup_scores = <<>>
        THEN [err |-> "ValueError: attempt to get argmin of an empty sequence"]
        ELSE LET idx == ArgMin(workgroup_scores)
                 best_model == FromStruct(workgroup_models[idx])
             IN  [err |-> "",
                  best |-> best_model,
                  best_score |-> workgroup_scores[idx],
                  best_workgroup_idx |-> idx,
                  model_class |-> FromStructClass,
                  reduce_reads |-> {2, 3},
                  sort_reads |-> IF k > 1 THEN {1} ELSE {},
                  top_models |->
                      IF k > 1
                      THEN LET top == SortedPrefix(ArrayOf(results[1], KernelAll(t, N, ko)), {}, k)
                           IN  [j \in DOMAIN top |-> FromStruct(top[j])]
                      ELSE <<best_model>>]

-----------------------------------------------------------------------------
(* SpecExplore: a script calls explore_variations on one Model *)

MaxVariants == 2

\* the templates: valid spinning models, one of a single layer given by its
\* semi-axes (not yet evaluated, or carrying outputs) and one of two layers,
\* the second given by its radius
TemplateInputs ==
    { d \in ModelInputs :
        /\ d.angular_momentum = Half
        /\ \/ d.layers = << [abc |-> <<One, One, One>>, density |-> One] >>
           \/ /\ d.layers = << [abc |-> <<One, One, One>>, density |-> One],
                               [r |-> Two, density |-> One] >>
              /\ ~HasKey(d, "total_energy")
        /\ ModelInit(d).err = "" }

ExploreInputs ==
    { [num_variants |-> n, top_k |-> k, compile_ok |-> c] :
        n \in (0..MaxVariants) \cup {LocalSize + 1},
        k \in {None, Some(1), Some(2)},
        c \in BOOLEAN }

InitExplore ==
    /\ pc = "idle"
    /\ \E d \in TemplateInputs :
          /\ model = ModelInit(d).model
          /\ ctor = [status |-> "ok", input |-> d]
    /\ struct_bytes = <<>>
    /\ rt = NoRt
    /\ InitHarness

SelfWithOutputs(m) == ("rel_equipotential_err" :> 4) @@ m

\* the items of self after explore_variations: the method assigns the
\* attributes program and _shader_initialized, and no item of the dict
SelfAfterExplore(m) == m

\* best, top_models = model.explore_variations(num_variants, temperature, top_k, seed)
ExploreVariations ==
    /\ pc = "idle"
    /\ \E a \in ExploreInputs :
         \E st \in { ExploreRuns(model, Step(program, gl, 1), shader_initialized,
                                 a.num_variants, a.compile_ok) } :
            /\ shader_initialized' = (shader_initialized \/ a.compile_ok)
            /\ program' = st.prog
            /\ gl' = st.gl
            /\ calls' = st.calls
            /\ IF st.err # ""
               THEN ret' = [op |-> "explore_variations", args |-> a, err |-> st.err,
                            results |-> <<>>]
               ELSE \E t \in { TemplateRecord(model) }, ko \in KernelOutcomes(a.num_variants) :
                       \E red \in { Reduce(t, st.results, a.num_variants, ko, a.top_k) } :
                          ret' = [op |-> "explore_variations", args |-> a, err |-> red.err,
                                  results |-> st.results, kernel |-> ko, returned |-> red]
    /\ pc' = "returned"
    /\ model' = SelfAfterExplore(model)
    /\ UNCHANGED <<ctor, struct_bytes, rt>>

\* the script takes the returned models and goes on
Continue ==
    /\ pc = "returned"
    /\ pc' = "idle"
    /\ calls' = <<>>
    /\ ret' = [op |-> "none"]
    /\ UNCHANGED <<modelVars, shader_initialized, program, gl>>

NextExplore ==
    \/ ExploreVariations
    \/ Continue
    \/ ToStruct

SpecExplore == InitExplore /\ [][NextExplore]_vars

-----------------------------------------------------------------------------
(* GLSLComputeProgram: loading the kernel source *)

\* A text is a sequence of tokens (strings); "\n" is the newline and " " a
\* blank.  A path is the sequence of its components, relative to the working
\* directory of the process; a file system maps the paths of its files to
\* their texts.

IsSpace(tok) == tok \in {" ", "\n"}

RECURSIVE LStrip(_)
LStrip(t) == IF t # <<>> /\ IsSpace(Head(t)) THEN LStrip(Tail(t)) ELSE t

RECURSIVE RStrip(_)
RStrip(t) == IF t # <<>> /\ IsSpace(t[Len(t)]) THEN RStrip(SubSeq(t, 1, Len(t) - 1)) ELSE t

\* str.strip()
Strip(t) == RStrip(LStrip(t))

\* str.startswith(tok)
StartsWith(t, tok) == t # <<>> /\ Head(t) = tok

\* the position of the first newline of a text (0: none)
FirstNewline(t) ==
    LET nl == { k \in DOMAIN t : t[k] = "\n" }
    IN  IF nl = {} THEN 0 ELSE CHOOSE k \in nl : \A j \in nl : k <= j

RECURSIVE FileLines(_)
\* "for line in fp": the lines of a text, each with its newline
FileLines(t) ==
    IF t = <<>> THEN <<>>
    ELSE IF FirstNewline(t) = 0 THEN <<t>>
    ELSE <<SubSeq(t, 1, FirstNewline(t))>> \o FileLines(SubSeq(t, FirstNewline(t) + 1, Len(t)))

RECURSIVE Split(_)
\* str.split('\n')
Split(t) ==
    IF FirstNewline(t) = 0 THEN <<t>>
    ELSE <<SubSeq(t, 1, FirstNewline(t) - 1)>> \o Split(SubSeq(t, FirstNewline(t) + 1, Len(t)))

RECURSIVE JoinLines(_)
\* '\n'.join(lines)
JoinLines(ls) ==
    IF ls = <<>> THEN <<>>
    ELSE IF Len(ls) = 1 THEN ls[1]
    ELSE ls[1] \o <<"\n">> \o JoinLines(Tail(ls))

\* eval of the argument of an #include: a quoted literal gives the path it spells
QuotedPaths ==
    ("\"common.glsl\"" :> <<"common.glsl">>)
    @@ ("\"util.glsl\"" :> <<"util.glsl">>)
    @@ ("\"shader/common.glsl\"" :> <<"shader", "common.glsl">>)

\* the depth of nested includes at which the interpreter gives up
MaxIncludeDepth == 3

RECURSIVE LoadLines(_, _, _)
RECURSIVE LoadFrom(_, _, _, _)

\* _load_shader.load_lines(filepath): open(filepath) is relative to the working
\* directory of the process
LoadLines(fs, filepath, depth) ==
    IF depth > MaxIncludeDepth THEN [err |-> "RecursionError", text |-> <<>>]
    ELSE IF filepath \notin DOMAIN fs THEN [err |-> "FileNotFoundError", text |-> <<>>]
    ELSE LoadFrom(fs, FileLines(fs[filepath]), 1, depth)

\* the loop "for line in fp" of load_lines, from the k-th line on
LoadFrom(fs, lines, k, depth) ==
    IF k > Len(lines) THEN [err |-> "", text |-> <<>>]
    ELSE LET stripped == Strip(lines[k])
             arg == Strip(Tail(stripped))
             head == IF StartsWith(stripped, "#include")
                     THEN IF Len(arg) = 1 /\ arg[1] \in DOMAIN QuotedPaths
                          THEN LoadLines(fs, QuotedPaths[arg[1]], depth + 1)
                          ELSE [err |-> "SyntaxError", text |-> <<>>]
                     ELSE [err |-> "", text |-> lines[k]]
         IN  IF head.err # "" THEN head
             ELSE LET rest == LoadFrom(fs, lines, k + 1, depth)
                  IN  IF rest.err # "" THEN rest
                      ELSE [err |-> "", text |-> head.text \o rest.text]

\* GLSLComputeProgram._load_shader
LoadShader(fs, path) == LoadLines(fs, path, 0)

\* ShaderConfig.precision_config: the defines, in order
PrecisionConfig(buffer_precision, calc_precision) ==
    << <<"BUFFER_PRECISION", buffer_precision>>, <<"CALC_PRECISION", calc_precision>> >>

\* the define block of _load_and_configure_shader
DefineBlock(defines) ==
    [k \in DOMAIN defines |-> <<"#define", " ", defines[k][1], " ", defines[k][2]>>]

VersionLineIdxLast(lines) ==
    LET v == { i \in DOMAIN lines : StartsWith(Strip(lines[i]), "#version") }
    IN  IF v = {} THEN 0 ELSE CHOOSE i \in v : \A j \in v : i >= j

\* _load_and_configure_shader: the index after the first #version line (0: none)
VersionLineIdx(lines) ==
    LET v == { i \in DOMAIN lines : StartsWith(Strip(lines[i]), "#version") }
    IN  IF v = {} THEN 0 ELSE CHOOSE i \in v : \A j \in v : i <= j

\* GLSLComputeProgram._load_and_configure_shader
LoadAndConfigureShader(fs, path, defines) ==
    LET ld == LoadShader(fs, path)
        lines == Split(ld.text)
        idx == VersionLineIdx(lines)
    IN  IF ld.err # "" THEN [err |-> ld.err, source |-> <<>>]
        ELSE IF defines = <<>> THEN [err |-> "", source |-> ld.text]
        ELSE [err |-> "",
              source |-> JoinLines(SubSeq(lines, 1, idx) \o DefineBlock(defines)
                                     \o SubSeq(lines, idx + 1, Len(lines)))]

-----------------------------------------------------------------------------
(* GLSLComputeProgram: compiling *)

\* what is printed: a message, or one numbered line of the source dump
Printed(line_no, line) == [line_no |-> line_no, line |-> line]

DumpNothing(source) == <<>>

\* GLSLComputeProgram._dump_source
DumpSource(source) ==
    [k \in DOMAIN Split(source) |-> Printed(k, Split(source)[k])]

\* the exception of gl_shaders.compileShader / compileProgram: its first
\* argument is a text that holds the info log of the failed step
ShaderError(step, log) ==
    IF step = "compile" THEN <<"Shader compile failure (0): ", log>>
    ELSE <<"Link failure (0): ", log>>

\* _compile: the except branch; log is the shader's info log if the shader
\* object exists
CompileFailed(st, source, e, log) ==
    LET msg == <<"Compute shader compilation failed:", "\n">> \o e
                  \o <<"\n", "Log:", "\n", log>>
    IN  [st EXCEPT !.out = @ \o <<Printed(0, msg)>> \o DumpSource(source),
                   !.err = "RuntimeError",
                   !.msg = msg]

\* GLSLComputeProgram._compile; outcome is what the driver does with the source
Compile(st, source, outcome) ==
    LET s1 == GlCall(st, "compileShader", <<"GL_COMPUTE_SHADER">>)
        handle == CHOOSE n \in 1..(Cardinality(st.gl.programs) + 1) : n \notin st.gl.programs
        s2 == GlCall(s1, "compileProgram", <<handle>>)
    IN  IF outcome.step = "compile"
        THEN CompileFailed(s1, source, ShaderError("compile", outcome.log), "")
        ELSE IF outcome.step = "link"
             THEN CompileFailed(s2, source, ShaderError("link", outcome.log), outcome.shader_log)
             ELSE [s2 EXCEPT !.gl.programs = @ \cup {handle}, !.prog.program = handle]

\* GLSLComputeProgram.__init__: the new object is st.prog when no exception
\* is raised
ConstructProgram(st, fs, shader_path, defines, outcome) ==
    LET lc == LoadAndConfigureShader(fs, shader_path, defines)
        obj == [shader_path |-> shader_path, defines |-> defines, source_code |-> lc.source]
                  @@ NewProgram(0)
    IN  IF lc.err # "" THEN Raise(st, lc.err)
        ELSE Compile([st EXCEPT !.prog = obj], lc.source, outcome)

-----------------------------------------------------------------------------
(* SpecCreate: a script creates programs from kernel files *)

\* the longest main file enumerated, in lines
MaxLines == 2

VersionLine == <<"#version", " ", "460", "\n">>
BodyLine == <<"void main() {}", "\n">>
IncludeLine(tok) == <<"#include", " ", tok, "\n">>

\* the lines of the main file: plain ones and includes, one of them indented
LineInputs ==
    { VersionLine, BodyLine, IncludeLine("\"common.glsl\""),
      <<" ">> \o IncludeLine("\"common.glsl\""), IncludeLine("\"shader/common.glsl\"") }

RECURSIVE Concat(_)
Concat(ls) == IF ls = <<>> THEN <<>> ELSE Head(ls) \o Concat(Tail(ls))

MainTexts == { Concat(ls) : ls \in ListsOf(LineInputs, MaxLines) }

MainPath == <<"shader", "main.glsl">>

\* the files next to the main file and in the working directory:
\*   common.glsl beside the main file only; in the working directory only (its
\*   last line without newline); in both places; beside the main file and
\*   including util.glsl, which is beside it too; in the working directory and
\*   including itself
Layouts ==
    { (<<"shader", "common.glsl">> :> <<"float x;", "\n">>),
      (<<"common.glsl">> :> <<"float y;">>),
      (<<"shader", "common.glsl">> :> <<"float x;", "\n">>)
          @@ (<<"common.glsl">> :> <<"float y;">>),
      (<<"shader", "common.glsl">> :> IncludeLine("\"util.glsl\"") \o <<"float x;", "\n">>)
          @@ (<<"shader", "util.glsl">> :> <<"float u;", "\n">>),
      (<<"common.glsl">> :> IncludeLine("\"common.glsl\"")) }

FsInputs == { (MainPath :> t) @@ l : t \in MainTexts, l \in Layouts }

\* config: none, or a precision configuration
ConfigInputs == { <<>>, PrecisionConfig("double", "double"), PrecisionConfig("float", "double") }

\* the driver compiles and links the source, or rejects it at one of the steps
CompileOutcomes ==
    { [step |-> "ok", log |-> "", shader_log |-> ""],
      [step |-> "compile", log |-> "0:1(1): error: syntax error", shader_log |-> ""],
      [step |-> "link", log |-> "error: no main", shader_log |-> ""],
      [step |-> "link", log |-> "error: no main", shader_log |-> "0:2(1): warning"] }

CreateInputs ==
    { [fs |-> f, shader_path |-> MainPath, defines |-> c, outcome |-> o] :
        f \in FsInputs, c \in ConfigInputs, o \in CompileOutcomes }

InitCreate ==
    /\ pc = "idle"
    /\ model = NoModel
    /\ ctor = NoCtor
    /\ struct_bytes = <<>>
    /\ rt = NoRt
    /\ InitHarness

\* program = harness.create_program(shader_path, config), the script's one program
Create ==
    /\ pc = "idle"
    /\ program = NoProgram
    /\ \E a \in CreateInputs :
         \E st \in { ConstructProgram(Step(program, gl, 1), a.fs, a.shader_path,
                                      a.defines, a.outcome) } :
            /\ program' = IF st.err = "" THEN st.prog ELSE program
            /\ gl' = st.gl
            /\ calls' = st.calls
            /\ ret' = [op |-> "create", args |-> a, err |-> st.err, msg |-> st.msg,
                       out |-> st.out]
    /\ pc' = "returned"
    /\ UNCHANGED <<modelVars, shader_initialized>>

\* program.cleanup() on a program that was created
Release ==
    /\ pc = "returned"
    /\ program # NoProgram
    /\ Cleanup

NextCreate ==
    \/ Create
    \/ Release

SpecCreate == InitCreate /\ [][NextCreate]_vars

-----------------------------------------------------------------------------
(* Claims on the record protocol *)

\* the layer count in the header of a serialized record
HeaderCount(b) == UnpackI(Slice(b, FieldOffset("num_layers"), 4))

\* the number of slots to_struct filled with layer data
SlotsWritten(m) == Cardinality({ i \in 0..(MaxLayers - 1) : i < Len(m.layers) })

\* C1: for a Model of at most 20 layers, to_struct returns exactly itemsize bytes
\* (888), so that the bytes can be read as one _model_dtype record
C1_ToStructIsOneRecord ==
    (struct_bytes # <<>> /\ Len(model.layers) <= MaxLayers)
        => /\ Len(struct_bytes) = ModelItemSize
           /\ FromBuffer(struct_bytes).err = ""

\* C2: for a Model of 0..20 layers, from_struct of the record read from
\* to_struct's bytes gives back angular_momentum, the layer count and every
\* layer's a, b, c, r, density in order
C2_RoundTrip ==
    (rt.status # "none" /\ Len(model.layers) <= MaxLayers)
        => /\ rt.status = "ok"
           /\ rt.model.angular_momentum = model.angular_momentum
           /\ Len(rt.model.layers) = Len(model.layers)
           /\ \A i \in DOMAIN model.layers :
                /\ rt.model.layers[i].abc = model.layers[i].abc
                /\ rt.model.layers[i].r = model.layers[i].r
                /\ rt.model.layers[i].density = model.layers[i].density

\* C3: Model(...) with more than 20 layers fails and with exactly 20 succeeds;
\* to_struct never writes a header count above 20 or above the number of slots
\* it filled with layer data
C3_Capacity ==
    /\ (ctor.status # "none" /\ Len(ctor.input.layers) > MaxLayers) => ctor.status # "ok"
    /\ (ctor.status # "none" /\ ctor.input.layers = FullLayers(MaxLayers)) => ctor.status = "ok"
    /\ struct_bytes # <<>> =>
         /\ HeaderCount(struct_bytes) <= MaxLayers
         /\ HeaderCount(struct_bytes) <= SlotsWritten(model)

\* |x - r| / r < 1e-8
RelClose(x, r) == r > 0 /\ Abs(x - r) <= (r - 1) \div RTolInv

LayerCbrt(layer) == Cbrt3(layer.abc[1], layer.abc[2], layer.abc[3])

\* C4: Model(...) fails when a layer has neither 'abc' nor 'r', or has both with
\* r not within relative 1e-8 of cbrt(a*b*c); when it succeeds every layer has
\* both and abs(cbrt(a*b*c) - r) / r < 1e-8
C4_LayerValidation ==
    /\ ctor.status # "none" =>
         \A i \in DOMAIN ctor.input.layers :
            LET layer == ctor.input.layers[i]
            IN  /\ (~HasKey(layer, "abc") /\ ~HasKey(layer, "r")) => ctor.status # "ok"
                /\ (HasKey(layer, "abc") /\ HasKey(layer, "r")
                      /\ ~RelClose(LayerCbrt(layer), layer.r)) => ctor.status # "ok"
    /\ ctor.status = "ok" =>
         \A i \in DOMAIN model.layers :
            /\ HasKey(model.layers[i], "abc")
            /\ HasKey(model.layers[i], "r")
            /\ RelClose(LayerCbrt(model.layers[i]), model.layers[i].r)

-----------------------------------------------------------------------------
(* Claims on GLSLComputeProgram.run *)

CallsOf(fn) == { i \in DOMAIN calls : calls[i].fn = fn }

\* a descriptor whose payload is not byte_size bytes long
BadPayload(spec) ==
    spec.initial_data # None /\ spec.initial_data[1].nbytes # ByteSize(spec)

\* C5: a run rejected for a payload whose length differs from byte_size has
\* made no device call (nothing generated, bound or uploaded)
C5_RejectedBeforeDeviceCall ==
    (ret.op = "run" /\ ret.err = "AssertionError") => calls = <<>>

\* C6: a run given a uniform with an unknown type tag (and no bad payload)
\* fails with the configuration error, whatever the uniform's name, and has
\* made no device call
C6_UnknownUniformType ==
    (/\ ret.op = "run"
     /\ \A k \in DOMAIN ret.args.buffers : ~BadPayload(ret.args.buffers[k])
     /\ \E k \in DOMAIN ret.args.uniforms :
            ret.args.uniforms[k].uniform_type \notin UniformTypes)
        => /\ ret.err = "ValueError: Unsupported uniform type"
           /\ calls = <<>>

\* C7: every readback of a run comes after that run's dispatch, memory
\* barrier and glFinish, in this order
C7_BarrierBeforeReadback ==
    \A i \in CallsOf("glGetBufferSubData") :
        \E d \in CallsOf("glDispatchCompute") :
            \E b \in CallsOf("glMemoryBarrier") :
                \E f \in CallsOf("glFinish") :
                    /\ d < b /\ b < f /\ f < i
                    /\ calls[d].run = calls[i].run
                    /\ calls[b].run = calls[i].run
                    /\ calls[f].run = calls[i].run

C7_Witness ==
    /\ ret.op = "run"
    /\ ret.err = ""
    /\ CallsOf("glGetBufferSubData") # {}

\* the invocation count and group size a call of run works with
Invocations(a) ==
    IF a.num_invocations # None THEN a.num_invocations[1]
    ELSE IF a.buffers # <<>> THEN a.buffers[1].count ELSE 0

GroupSize(a) == IF a.local_size_x # None THEN a.local_size_x[1] ELSE DefaultLocalSize

\* C8: for N >= 1 invocations in groups of g >= 1, run dispatches
\* ceil(N / g) groups along x and 1 along y and z: the groups cover the
\* invocations and none is wholly unused; 1000 in groups of 256 are 4 groups
C8_GroupSizing ==
    (ret.op = "run" /\ Invocations(ret.args) >= 1 /\ GroupSize(ret.args) >= 1) =>
        \A i \in CallsOf("glDispatchCompute") :
            LET groups == calls[i].args[1]
                N == Invocations(ret.args)
                g == GroupSize(ret.args)
            IN  /\ calls[i].args = <<groups, 1, 1>>
                /\ groups * g >= N
                /\ (groups - 1) * g < N
                /\ (N = 1000 /\ g = 256) => groups = 4

C8_Witness ==
    /\ ret.op = "run"
    /\ Invocations(ret.args) = 1000
    /\ GroupSize(ret.args) = 256
    /\ \E i \in CallsOf("glDispatchCompute") : calls[i].args = <<4, 1, 1>>

\* the descriptors of a call that are read back
OutputSpecs(a) ==
    { a.buffers[k] : k \in { j \in DOMAIN a.buffers : a.buffers[j].mode \in {"out", "inout"} } }

\* C9: the mapping run returns has as keys exactly the bindings of the 'out'
\* and 'inout' descriptors, and each value is the array of an 'out' or 'inout'
\* descriptor of that binding: count elements, viewing byte_size bytes read
\* from the buffer the program keeps for the binding
C9_ResultMapping ==
    (ret.op = "run" /\ ret.err = "") =>
        /\ DOMAIN ret.results = { spec.binding : spec \in OutputSpecs(ret.args) }
        /\ \A k \in DOMAIN ret.results :
              \E spec \in OutputSpecs(ret.args) :
                 /\ spec.binding = k
                 /\ ret.results[k].count = spec.count
                 /\ ret.results[k].dtype = spec.dtype.name
                 /\ ret.results[k].nbytes = spec.count * spec.dtype.itemsize
                 /\ ret.results[k].buf = program.ssbos[k]
                 /\ \E i \in CallsOf("glGetBufferSubData") :
                       calls[i].args = <<program.ssbos[k], 0, ret.results[k].nbytes>>

C9_Witness ==
    /\ ret.op = "run"
    /\ ret.err = ""
    /\ \E i, j \in DOMAIN ret.args.buffers :
          /\ ret.args.buffers[i].mode = "in"
          /\ ret.args.buffers[j].mode = "inout"
          /\ ret.args.buffers[i].binding # ret.args.buffers[j].binding
    /\ DOMAIN ret.results # {}

-----------------------------------------------------------------------------
(* Claims on Model.explore_variations *)

\* C10: a call of explore_variations that returns has issued exactly one
\* dispatch, and the per-group results it reduces were read after that dispatch
C10_OneDispatch ==
    (ret.op = "explore_variations" /\ ret.err = "") =>
        /\ Cardinality(CallsOf("glDispatchCompute")) = 1
        /\ \A d \in CallsOf("glDispatchCompute") :
              /\ ret.results[2].run = calls[d].run
              /\ ret.results[3].run = calls[d].run

\* a call of explore_variations that returned its pair
Explored == ret.op = "explore_variations" /\ ret.err = ""

\* the two per-group arrays the call read back
GroupModelsRead ==
    ArrayOf(ret.results[2],
            KernelGroupModels(TemplateRecord(model), ret.args.num_variants, ret.kernel))

GroupScoresRead ==
    ArrayOf(ret.results[3], KernelGroupScores(ret.args.num_variants, ret.kernel))

\* C11: the best model explore_variations returns is the per-group-best record
\* (binding 2) at the index of the minimum of the per-group scores (binding 3);
\* both arrays have ceil(N / 256) elements and the step reads no other array
C11_GlobalBest ==
    Explored =>
        LET N == ret.args.num_variants
            models == GroupModelsRead
            scores == GroupScoresRead
            G == Len(scores)
            idx == ret.returned.best_workgroup_idx
        IN  /\ Len(models) = G
            /\ G * LocalSize >= N
            /\ (G - 1) * LocalSize < N
            /\ idx \in 1..G
            /\ \A j \in 1..G : scores[j] >= scores[idx]
            /\ ret.returned.best = FromStruct(models[idx])
            /\ ret.returned.reduce_reads = {2, 3}

C11_Witness ==
    /\ Explored
    /\ Len(GroupScoresRead) = 2
    /\ GroupScoresRead[2] < GroupScoresRead[1]
    /\ ret.returned.best_workgroup_idx = 2

\* C12: the score of the best model the driver selects is the minimum of the
\* per-group bests B and the minimum of the scores S of all N invocations,
\* also when the minimum lies in a last group that is only partly filled
C12_ReductionCorrect ==
    Explored =>
        LET N == ret.args.num_variants
            B == GroupScoresRead
            best == ret.returned.best_score
        IN  /\ \A g \in DOMAIN B : B[g] >= best
            /\ \E g \in DOMAIN B : B[g] = best
            /\ \A i \in 1..N : VariantScore(ret.kernel, i) >= best
            /\ \E i \in 1..N : VariantScore(ret.kernel, i) = best

C12_Witness ==
    /\ Explored
    /\ ret.args.num_variants = LocalSize + 1
    /\ ret.kernel.low = {LocalSize + 1}
    /\ ret.returned.best_score = One

\* the requested length of the list
TopK(a) == IF a.top_k = None THEN 1 ELSE a.top_k[1]

\* the p-th invocation in stable ascending order of the scores: the one that
\* p - 1 invocations precede, by score and among equal scores by index
StableIndex(ko, N, p) ==
    CHOOSE i \in 1..N :
        Cardinality({ j \in 1..N :
            \/ VariantScore(ko, j) < VariantScore(ko, i)
            \/ VariantScore(ko, j) = VariantScore(ko, i) /\ j < i }) = p - 1

\* C13: for top_k > 1 the returned list holds the first k records of the N
\* variants in stable ascending order of score, equal scores in index order
C13_StableTopK ==
    (Explored /\ TopK(ret.args) > 1) =>
        LET N == ret.args.num_variants
            n == IF TopK(ret.args) < N THEN TopK(ret.args) ELSE N
            t == TemplateRecord(model)
        IN  ret.returned.top_models =
                [p \in 1..n |-> FromStruct(VariantRecord(t, ret.kernel, StableIndex(ret.kernel, N, p)))]

\* C14: for every k >= 1 the best model returned is one of the models of the
\* list returned with it, also when several variants tie on the minimum score
C14_BestInTopK ==
    (Explored /\ TopK(ret.args) >= 1) =>
        \E j \in DOMAIN ret.returned.top_models :
            ret.returned.top_models[j] = ret.returned.best

-----------------------------------------------------------------------------
(* Claims on the descriptors and the buffer table *)

\* C15: run accepts an 'in' or 'inout' descriptor only with a payload and an
\* 'out' descriptor only without one: it never allocates input storage without
\* uploading data and never uploads data into pure output storage
C15_PayloadDirection ==
    /\ (ret.op = "run" /\ ret.err = "") =>
          \A k \in DOMAIN ret.args.buffers :
             LET spec == ret.args.buffers[k]
             IN  /\ spec.mode \in {"in", "inout"} => spec.initial_data # None
                 /\ spec.mode = "out" => spec.initial_data = None
    /\ \A i \in CallsOf("glBufferData") :
          /\ calls[i].args[3] \in {"GL_STATIC_DRAW", "GL_DYNAMIC_COPY"}
                => calls[i].args[2] = "initial_data"
          /\ calls[i].args[3] = "GL_DYNAMIC_READ" => calls[i].args[2] = "None"

\* C16: run never processes two descriptors of one binding index in one call,
\* so every output descriptor of a call that returns has its own result
C16_UniqueBindings ==
    (ret.op = "run" /\ ret.err = "") =>
        /\ \A i, j \in DOMAIN ret.args.buffers :
              i # j => ret.args.buffers[i].binding # ret.args.buffers[j].binding
        /\ Cardinality(DOMAIN ret.results) =
              Cardinality({ k \in DOMAIN ret.args.buffers :
                              ret.args.buffers[k].mode \in {"out", "inout"} })

\* the buffer table of the program names exactly the buffers that exist, one
\* for every binding index
BufferTableExact ==
    /\ gl.names = { program.ssbos[b] : b \in DOMAIN program.ssbos }
    /\ Cardinality(gl.names) = Cardinality(DOMAIN program.ssbos)

\* before every dispatch of a run, the storage of every descriptor of the call
\* has been specified again in that run, on the buffer kept for its binding
RespecifiedBeforeDispatch ==
    ret.op = "run" =>
        \A d \in CallsOf("glDispatchCompute") :
            \A k \in DOMAIN ret.args.buffers :
                LET spec == ret.args.buffers[k]
                IN  \E i \in CallsOf("glBufferData") :
                       /\ i < d
                       /\ calls[i].run = calls[d].run
                       /\ calls[i].args =
                            << ByteSize(spec),
                               IF spec.initial_data = None THEN "None" ELSE "initial_data",
                               Usage(spec) >>
                       /\ calls[i - 1].fn = "glBindBuffer"
                       /\ calls[i - 1].args = << program.ssbos[spec.binding] >>

\* a call of run generates a buffer for exactly the binding indices that the
\* table did not hold, and keeps the buffers of the others
GeneratedOnlyWhenNew ==
    ret'.op = "run" =>
        /\ Cardinality({ i \in DOMAIN calls' : calls'[i].fn = "glGenBuffers" }) =
              Cardinality(DOMAIN program'.ssbos \ DOMAIN program.ssbos)
        /\ \A b \in DOMAIN program.ssbos :
              /\ b \in DOMAIN program'.ssbos
              /\ program'.ssbos[b] = program.ssbos[b]

\* C17: over any sequence of run calls the buffer table holds one buffer for
\* every binding index, a buffer is generated only for a binding index the
\* table does not hold yet, and every run specifies the storage of all its
\* descriptors again before it dispatches
C17_BufferReuse ==
    /\ [](BufferTableExact /\ RespecifiedBeforeDispatch)
    /\ [][GeneratedOnlyWhenNew]_vars

C17_Witness ==
    /\ ret.op = "run"
    /\ ret.runs = 2
    /\ ret.err = ""
    /\ ret.args.buffers # <<>>
    /\ CallsOf("glGenBuffers") = {}
    /\ CallsOf("glBufferData") # {}
    /\ CallsOf("glDispatchCompute") # {}

\* C18: whenever run issues the compute dispatch, the program put in use for
\* it is a compiled program (its handle is not 0), also after cleanup()
C18_DispatchOnlyCompiled ==
    \A d \in CallsOf("glDispatchCompute") :
        \E u \in CallsOf("glUseProgram") :
            /\ u < d
            /\ calls[u].run = calls[d].run
            /\ calls[u].args[1] # 0

-----------------------------------------------------------------------------
(* Claims on the construction of a program *)

\* the source a created program is compiled from
SourceOf(a) == LoadAndConfigureShader(a.fs, a.shader_path, a.defines)

\* a construction that reached the compiler and was rejected by it
CompileRejected ==
    /\ ret.op = "create"
    /\ SourceOf(ret.args).err = ""
    /\ ret.args.outcome.step \in {"compile", "link"}

\* C19: when the kernel fails to compile or to link, construction raises the
\* fatal error whose message holds the compiler's log, after printing the
\* message and then every line of the final source (includes expanded, defines
\* injected) with its number from 1; no program object results and the
\* compile is attempted once
C19_CompileFailureDump ==
    CompileRejected =>
        LET lines == Split(SourceOf(ret.args).source)
        IN  /\ ret.err = "RuntimeError"
            /\ \E k \in DOMAIN ret.msg : ret.msg[k] = ret.args.outcome.log
            /\ Len(ret.out) = 1 + Len(lines)
            /\ ret.out[1] = Printed(0, ret.msg)
            /\ \A k \in DOMAIN lines : ret.out[k + 1] = Printed(k, lines[k])
            /\ program = NoProgram
            /\ Cardinality(CallsOf("compileShader")) = 1
            /\ Cardinality(CallsOf("compileProgram")) <= 1

C19_Witness ==
    /\ CompileRejected
    /\ ret.args.outcome.step = "link"
    /\ ret.args.defines # <<>>
    /\ ret.args.fs[MainPath] = VersionLine \o IncludeLine("\"shader/common.glsl\"")
    /\ Len(ret.out) > 4

\* the directory of a file
DirOf(path) == SubSeq(path, 1, Len(path) - 1)

RECURSIVE IncludeExpansion(_, _, _)
RECURSIVE ExpansionFrom(_, _, _, _, _)

\* the text of a file with every #include line replaced by the expansion of
\* the file it names, the name taken relative to the directory of the
\* including file
IncludeExpansion(fs, filepath, depth) ==
    IF depth > MaxIncludeDepth \/ filepath \notin DOMAIN fs
    THEN [ok |-> FALSE, text |-> <<>>]
    ELSE ExpansionFrom(fs, filepath, FileLines(fs[filepath]), 1, depth)

ExpansionFrom(fs, filepath, lines, k, depth) ==
    IF k > Len(lines) THEN [ok |-> TRUE, text |-> <<>>]
    ELSE LET stripped == Strip(lines[k])
             arg == Strip(Tail(stripped))
             head == IF StartsWith(stripped, "#include")
                     THEN IF Len(arg) = 1 /\ arg[1] \in DOMAIN QuotedPaths
                          THEN IncludeExpansion(fs, DirOf(filepath) \o QuotedPaths[arg[1]],
                                                depth + 1)
                          ELSE [ok |-> FALSE, text |-> <<>>]
                     ELSE [ok |-> TRUE, text |-> lines[k]]
             rest == ExpansionFrom(fs, filepath, lines, k + 1, depth)
         IN  IF head.ok /\ rest.ok THEN [ok |-> TRUE, text |-> head.text \o rest.text]
             ELSE [ok |-> FALSE, text |-> <<>>]

\* C20: loading a kernel file whose includes all name files that exist beside
\* the including file succeeds, and gives the file's lines in order with every
\* #include line replaced in place by the expansion of the file it names
C20_IncludeExpansion ==
    (ret.op = "create" /\ IncludeExpansion(ret.args.fs, ret.args.shader_path, 0).ok) =>
        /\ LoadShader(ret.args.fs, ret.args.shader_path).err = ""
        /\ LoadShader(ret.args.fs, ret.args.shader_path).text =
              IncludeExpansion(ret.args.fs, ret.args.shader_path, 0).text
        /\ ret.err \notin {"FileNotFoundError", "RecursionError", "SyntaxError"}

-----------------------------------------------------------------------------
(* Claims on the configuration of the source *)

\* a construction whose source was loaded and accepted by the driver
Created ==
    /\ ret.op = "create"
    /\ ret.err = ""
    /\ program # NoProgram

\* the lines of the loaded (include-expanded) source that declare the version
VersionLines(lines) == { i \in DOMAIN lines : StartsWith(Strip(lines[i]), "#version") }

\* C21: with defines, the source of a created program is the loaded source
\* with one "#define KEY VALUE" line per define, in configuration order,
\* right after its first version line and nowhere else, every other line kept
\* in order; with no defines it is the loaded source itself
C21_MacroInjection ==
    Created =>
        LET loaded == LoadShader(ret.args.fs, ret.args.shader_path).text
            before == Split(loaded)
            after == Split(program.source_code)
            defines == ret.args.defines
            n == Len(defines)
        IN  IF defines = <<>> THEN program.source_code = loaded
            ELSE VersionLines(before) # {} =>
                   \E v \in VersionLines(before) :
                      /\ \A j \in VersionLines(before) : v <= j
                      /\ Len(after) = Len(before) + n
                      /\ \A i \in 1..v : after[i] = before[i]
                      /\ \A k \in 1..n :
                            after[v + k] = <<"#define", " ", defines[k][1], " ", defines[k][2]>>
                      /\ \A i \in (v + 1)..Len(before) : after[i + n] = before[i]

C21_Witness ==
    /\ Created
    /\ ret.args.defines = PrecisionConfig("float", "double")
    /\ ret.args.fs[MainPath] = VersionLine \o VersionLine
    /\ Len(Split(program.source_code)) = 5

-----------------------------------------------------------------------------
(* Claims on the layer slots of a record *)

\* the 40 bytes of layer slot i (from 0) of the bytes b of to_struct
SlotBytes(b, i) == SubSeq(b, 16 + 40 * i + 1, 16 + 40 * i + 40)

\* C22: in the bytes to_struct returns, each of the 20 layer slots at or after
\* the layer count is all zero bytes, and each slot before it holds that
\* layer's a, b, c, r, density in this order at offset 16 + 40 * index
C22_SlotsZeroFilled ==
    struct_bytes # <<>> =>
        \A i \in 0..19 :
            IF i >= Len(model.layers)
            THEN \A k \in 1..40 : SlotBytes(struct_bytes, i)[k] = 0
            ELSE LET layer == model.layers[i + 1]
                 IN  /\ SubSeq(SlotBytes(struct_bytes, i), 1, 8) = PackD(layer.abc[1])
                     /\ SubSeq(SlotBytes(struct_bytes, i), 9, 16) = PackD(layer.abc[2])
                     /\ SubSeq(SlotBytes(struct_bytes, i), 17, 24) = PackD(layer.abc[3])
                     /\ SubSeq(SlotBytes(struct_bytes, i), 25, 32) = PackD(layer.r)
                     /\ SubSeq(SlotBytes(struct_bytes, i), 33, 40) = PackD(layer.density)

C22_Witness ==
    /\ struct_bytes # <<>>
    /\ Len(model.layers) = 2
    /\ ctor.input.layers[2] = [r |-> Two, density |-> One]
    /\ SlotBytes(struct_bytes, 1) # Zeros(40)
    /\ SlotBytes(struct_bytes, 2) = Zeros(40)

-----------------------------------------------------------------------------
(* Claims on the template of explore_variations *)

-----------------------------------------------------------------------------
(* Claims on the sizes explore_variations and run agree on *)

\* the glBufferData calls of run r of the call, in the order they were made
\* (one per descriptor, in descriptor order)
AllocationsOf(r) ==
    LET idx == { i \in DOMAIN calls : calls[i].fn = "glBufferData" /\ calls[i].run = r }
    IN  [k \in 1..Cardinality(idx) |->
           calls[CHOOSE i \in idx : Cardinality({ j \in idx : j <= i }) = k]]

\* C24: in every run of explore_variations that dispatches, the data stores
\* specified for the per-group-best buffer (binding 2) and the per-group-score
\* buffer (binding 3) hold as many records and scores as groups are dispatched
C24_GroupBuffersMatchDispatch ==
    (ret.op = "explore_variations" /\ ret.args.num_variants >= 1) =>
        \A d \in CallsOf("glDispatchCompute") :
            LET groups == calls[d].args[1]
                alloc == AllocationsOf(calls[d].run)
            IN  /\ Len(alloc) = 4
                /\ alloc[3].args[1] = 888 * groups
                /\ alloc[4].args[1] = 8 * groups
                /\ groups >= 1

C24_Witness ==
    /\ Explored
    /\ ret.args.num_variants = LocalSize + 1
    /\ \E d \in CallsOf("glDispatchCompute") :
          /\ calls[d].args[1] = 2
          /\ AllocationsOf(calls[d].run)[3].args[1] = 1776

-----------------------------------------------------------------------------
(* Claims on what explore_variations returns *)

\* C25: the best model and every element of the list explore_variations
\* returns is a Model instance, on the top_k <= 1 path and on the top_k > 1 path
C25_ReturnsModels ==
    Explored =>
        /\ ret.returned.model_class = "Model"
        /\ Len(ret.returned.top_models) >= 1

-----------------------------------------------------------------------------
(* Claims on the lazy creation of the program *)

\* the instance holds a program exactly when it is marked initialized, and
\* the context never holds more than the one program created for it
CreatedAtMostOnce ==
    /\ Cardinality(gl.programs) <= 1
    /\ shader_initialized <=> program # NoProgram
    /\ shader_initialized => program.program \in gl.programs

\* one call of explore_variations: an initialized instance compiles nothing
\* and keeps its program; an uninitialized one attempts the creation once, and
\* is initialized afterwards exactly when the creation succeeded
CreatedWhenNeeded ==
    (pc = "idle" /\ pc' = "returned") =>
        LET compiles == { i \in DOMAIN calls' : calls'[i].fn = "compileShader" }
            links == { i \in DOMAIN calls' : calls'[i].fn = "compileProgram" }
        IN  IF shader_initialized
            THEN /\ compiles = {} /\ links = {}
                 /\ shader_initialized'
                 /\ program'.program = program.program
                 /\ gl'.programs = gl.programs
            ELSE /\ Cardinality(compiles) = 1
                 /\ IF ret'.args.compile_ok
                    THEN /\ shader_initialized'
                         /\ program' # NoProgram
                         /\ gl'.programs = {program'.program}
                    ELSE /\ ~shader_initialized'
                         /\ program' = NoProgram
                         /\ gl'.programs = {}
                         /\ ret'.err # ""

\* C26: over any sequence of explore_variations calls on one instance the
\* program is created at most once and later calls reuse it; a failed
\* creation leaves the instance uninitialized with no program stored, and the
\* next call attempts the creation again
C26_LazyCreation == [][CreatedWhenNeeded]_vars /\ []CreatedAtMostOnce

C26_Witness ==
    /\ Explored
    /\ shader_initialized
    /\ CallsOf("compileShader") = {}
    /\ Cardinality(CallsOf("glDispatchCompute")) = 2
    /\ program.program \in gl.programs

-----------------------------------------------------------------------------
(* Claims on what a run leaves behind *)

\* a run that was aborted by the payload check or by the uniform type check
RunAborted ==
    /\ ret.op = "run"
    /\ ret.err \in {"AssertionError", "ValueError: Unsupported uniform type"}

\* C27: an aborted run leaves no buffer bound to a binding point and no
\* program active, and (the table being empty before a script's first run)
\* no entry in the binding-to-buffer table; a run that returns ends with
\* program 0 active and every binding point it used unbound
C27_AbortLeavesNoState ==
    /\ RunAborted =>
          /\ gl.base = <<>>
          /\ gl.current = 0
          /\ gl.array = 0
          /\ ret.runs = 1 => program.ssbos = <<>>
    /\ (ret.op = "run" /\ ret.err = "") =>
          /\ gl.current = 0
          /\ \A k \in DOMAIN ret.args.buffers :
                ret.args.buffers[k].binding \notin DOMAIN gl.base

-----------------------------------------------------------------------------
(* Claims on cleanup *)

\* one call of cleanup: afterwards the handle is 0 and the table empty; it
\* deletes every buffer generated and not yet deleted, each in one call, and
\* the program if there is one; right after a cleanup it makes no call
CleanupStep ==
    ret'.op = "cleanup" =>
        LET deletes == { i \in DOMAIN calls' : calls'[i].fn = "glDeleteBuffers" }
        IN  /\ program'.program = 0
            /\ program'.ssbos = <<>>
            /\ gl'.names = {}
            /\ gl'.programs = {}
            /\ { calls'[i].args[2] : i \in deletes } = gl.names
            /\ Cardinality(deletes) = Cardinality(gl.names)
            /\ ret.op = "cleanup" => calls' = <<>>

\* C28: after any sequence of runs, cleanup leaves the handle 0 and the
\* buffer table empty, has deleted every buffer the program generated exactly
\* once, and a second cleanup issues no delete call
C28_CleanupIdempotent == [][CleanupStep]_vars

C28_Witness ==
    /\ ret.op = "cleanup"
    /\ Cardinality(CallsOf("glDeleteBuffers")) = 2
    /\ Cardinality(CallsOf("glDeleteProgram")) = 1
    /\ gl.names = {}
    /\ program.ssbos = <<>>

-----------------------------------------------------------------------------
(* Claims on the reduction of an empty dispatch *)

\* a call of explore_variations whose runs returned, so that it came to the reduction
Reduced == ret.op = "explore_variations" /\ "returned" \in DOMAIN ret

\* C29: a call returns a best model only if the per-group arrays have an
\* element, and then the index it reduces to lies within them (as for every
\* num_variants >= 1); with num_variants = 0 no group is dispatched, both
\* arrays are empty and the call fails in the reduction, returning nothing
C29_NoBestWithoutGroups ==
    Reduced =>
        IF ret.args.num_variants >= 1
        THEN /\ ret.err = ""
             /\ ret.results[2].count >= 1
             /\ ret.results[3].count = ret.results[2].count
             /\ ret.returned.best_workgroup_idx \in 1..ret.results[3].count
        ELSE /\ ret.err = "ValueError: attempt to get argmin of an empty sequence"
             /\ DOMAIN ret.returned = {"err"}
             /\ ret.results[2].count = 0
             /\ ret.results[3].count = 0
             /\ \A d \in CallsOf("glDispatchCompute") : calls[d].args[1] = 0

C29_Witness ==
    /\ Reduced
    /\ ret.args.num_variants = 0
    /\ ret.args.top_k = Some(2)
    /\ ret.err # ""
    /\ Cardinality(CallsOf("glDispatchCompute")) = 2

-----------------------------------------------------------------------------
(* Claims on the termination of the include expansion *)

\* the files a file includes, as load_lines opens them
IncludedBy(fs, f) ==
    IF f \notin DOMAIN fs THEN {}
    ELSE LET lines == FileLines(fs[f])
             incl == { k \in DOMAIN lines :
                         /\ StartsWith(Strip(lines[k]), "#include")
                         /\ Len(Strip(Tail(Strip(lines[k])))) = 1
                         /\ Strip(Tail(Strip(lines[k])))[1] \in DOMAIN QuotedPaths }
         IN  { QuotedPaths[Strip(Tail(Strip(lines[k])))[1]] : k \in incl }

RECURSIVE ReachedIn(_, _, _)
\* the files reached from the files of F by at most n more includes
ReachedIn(fs, F, n) ==
    IF n = 0 THEN F
    ELSE ReachedIn(fs, F \cup UNION { IncludedBy(fs, f) : f \in F }, n - 1)

\* a file reached from the main file includes itself, directly or through others
IncludeCycle(fs, path) ==
    LET n == Cardinality(DOMAIN fs)
    IN  \E f \in ReachedIn(fs, {path}, n) : f \in ReachedIn(fs, IncludedBy(fs, f), n)

\* C30: loading a kernel never exhausts the interpreter's recursion limit:
\* with an acyclic include graph it returns (or fails on a missing file), and
\* a file that includes itself, directly or through others, is detected
\* instead of being expanded again and again
C30_IncludeTerminates ==
    ret.op = "create" =>
        /\ ~IncludeCycle(ret.args.fs, ret.args.shader_path) => ret.err # "RecursionError"
        /\ IncludeCycle(ret.args.fs, ret.args.shader_path) => ret.err # "RecursionError"

====
